---------------------------- MODULE Spec2Model ----------------------------
(***************************************************************************)
(* Greenhouse layout designer (src/app.py).                                *)
(*                                                                         *)
(* The script reads its parameters from sidebar widgets, derives the       *)
(* growable region, packs beds separated by aisles along one axis and      *)
(* computes area KPIs.  The framework reruns the whole script whenever a   *)
(* widget changes, so one widget change is one action that recomputes      *)
(* every derived value.                                                    *)
(*                                                                         *)
(* Lengths are integers counted in tenths of a metre (2.0 m = 20), areas   *)
(* in hundredths of a square metre.  Arithmetic is exact: the rounding of  *)
(* IEEE-754 doubles in the Python source is not represented.               *)
(***************************************************************************)
EXTENDS Integers, Sequences, FiniteSets, TLC

VARIABLES
    pc,               \* "input": parameters chosen, nothing computed; "done": computed
    total, stripe, gap,          \* arguments of the pack_repeating_stripes call
    n_beds,                      \* its result (app.py:72)
    W, L, buffer, headhouse_depth, orientation, mode, bed_w, aisle_w,
    grow_L, grow_W, stripes_span, stripe_length,
    rects, beds, aisles,
    bed_area, aisle_area, headhouse_area, total_area,
    error             \* "none", or the exception that stopped the script

inputs  == <<W, L, buffer, headhouse_depth, orientation, mode, bed_w, aisle_w>>
outputs == <<grow_L, grow_W, stripes_span, stripe_length, rects, beds, aisles,
             bed_area, aisle_area, headhouse_area, total_area, error>>
packio  == <<total, stripe, gap, n_beds>>
vars    == <<pc, packio, inputs, outputs>>

-----------------------------------------------------------------------------
(* Widget minimums and defaults, in tenths of a metre. *)
MinW == 20
MinL == 30
MinBuffer == 0
MinHeadhouse == 0
MinBed == 3
MinAisle == 3
DefaultW == 90
DefaultL == 240
DefaultBuffer == 3
DefaultHeadhouse == 20
SoilBedDefault == 12
SoilAisleDefault == 5
BenchBedDefault == 10
BenchAisleDefault == 6

NorthSouth == "North-South (along length)"
EastWest == "East-West (along width)"
Orientations == {NorthSouth, EastWest}
SoilBeds == "Soil Beds"
Benches == "Benches (ebb-flow)"
Modes == {SoilBeds, Benches}

(* Bounds of the explored input sets. *)
MaxW == 21
MaxL == 31
BufferStride == 6
MaxBufferK == 1
HeadhouseStride == 32
MaxHeadhouseK == 1
MaxBed == 3
MaxAisle == 3
\* stand-alone calls of pack_repeating_stripes
LowArg == 2
MaxTotal == 9
MaxStripe == 4
MaxGap == 3
\* the layout computation on unvalidated parameters
LowAny == 1
MaxAnyW == 5
MaxAnyL == 5
MaxAnyBuffer == 1
MaxAnyHeadhouse == 2
MaxAnyBed == 2
MaxAnyAisle == 1

WValues == {DefaultW} \cup (MinW..MaxW)
LValues == {DefaultL} \cup (MinL..MaxL)
BufferValues == {DefaultBuffer} \cup {MinBuffer + BufferStride * k : k \in 0..MaxBufferK}
HeadhouseValues == {DefaultHeadhouse} \cup {MinHeadhouse + HeadhouseStride * k : k \in 0..MaxHeadhouseK}
BedValues == {SoilBedDefault, BenchBedDefault} \cup (MinBed..MaxBed)
AisleValues == {SoilAisleDefault, BenchAisleDefault} \cup (MinAisle..MaxAisle)

-----------------------------------------------------------------------------
Max(a, b) == IF a >= b THEN a ELSE b

Rect(kind, x, y, w, h, meta) ==
    [kind |-> kind, x |-> x, y |-> y, w |-> w, h |-> h, meta |-> meta]

\* mutants of pack_repeating_stripes
pack_no_phantom_gap(t, s, g) ==
    IF s <= 0 \/ t <= 0 THEN 0
    ELSE IF g >= 0 THEN Max(0, t \div (s + g)) ELSE 0

pack_modulo(t, s, g) ==
    IF s <= 0 \/ t <= 0 THEN 0
    ELSE IF g >= 0 THEN Max(0, (t + g) % (s + g)) ELSE 0

pack_negative_gap_as_zero(t, s, g) ==
    IF s <= 0 \/ t <= 0 THEN 0
    ELSE IF g >= 0 THEN Max(0, (t + g) \div (s + g)) ELSE Max(0, t \div s)

pack_one_more(t, s, g) ==
    IF s <= 0 \/ t <= 0 THEN 0
    ELSE IF g >= 0 THEN Max(0, (t + g) \div (s + g) + 1) ELSE 0

\* app.py:26-30.  The divisor is positive whenever the quotient is taken
\* (s > 0 and g >= 0), so \div is math.floor of the true quotient.
pack_repeating_stripes(t, s, g) ==
    IF s <= 0 \/ t <= 0 THEN 0
    ELSE IF g >= 0 THEN Max(0, (t + g) \div (s + g)) ELSE 0

\* mutant of HasAisleAfter: an aisle after every bed, the last one included
HasAisleAfterEvery(i, count) == i < count

\* app.py:88 and 93: every bed but the last is followed by an aisle
HasAisleAfter(i, count) == i < count - 1

\* mutant of Advance: the aisle width is left out of the step
AdvanceByStripeOnly(p, stripe_w, gap_w) == p + stripe_w

\* app.py:90 and 95: x += stripe_w + gap_w, y += stripe_w + gap_w
Advance(p, stripe_w, gap_w) == p + (stripe_w + gap_w)

\* app.py:85-95, one iteration per bed; i is the 0-based loop index.
RECURSIVE place_loop(_, _, _, _, _, _, _, _, _, _)
place_loop(i, x, y, length, stripe_w, gap_w, count, along_length, bs, as) ==
    IF i >= count THEN <<bs, as>>
    ELSE IF along_length
         THEN LET b == Rect("bed", x, y, stripe_w, length, [index |-> i + 1])
              IN  IF HasAisleAfter(i, count)
                  THEN place_loop(i + 1, Advance(x, stripe_w, gap_w), y, length,
                                  stripe_w, gap_w, count, along_length, Append(bs, b),
                                  Append(as, Rect("aisle", x + stripe_w, y, gap_w, length,
                                                  [between |-> <<i + 1, i + 2>>])))
                  ELSE place_loop(i + 1, x, y, length, stripe_w, gap_w, count,
                                  along_length, Append(bs, b), as)
         ELSE LET b == Rect("bed", x, y, length, stripe_w, [index |-> i + 1])
              IN  IF HasAisleAfter(i, count)
                  THEN place_loop(i + 1, x, Advance(y, stripe_w, gap_w), length,
                                  stripe_w, gap_w, count, along_length, Append(bs, b),
                                  Append(as, Rect("aisle", x, y + stripe_w, length, gap_w,
                                                  [between |-> <<i + 1, i + 2>>])))
                  ELSE place_loop(i + 1, x, y, length, stripe_w, gap_w, count,
                                  along_length, Append(bs, b), as)

\* app.py:82-96; returns <<beds, aisles>>
place_stripes(start_x, start_y, length, stripe_w, gap_w, count, along_length) ==
    place_loop(0, start_x, start_y, length, stripe_w, gap_w, count, along_length,
               <<>>, <<>>)

\* app.py:61-62
GrowL(l, hh, b) == Max(0, l - hh - 2 * b)
GrowW(w, b) == Max(0, w - 2 * b)

\* app.py:64
BedsAlongLength(o) == o = NorthSouth

\* mutant of StripesSpan: the two orientations exchanged
StripesSpanSwapped(o, gl, gw) == IF BedsAlongLength(o) THEN gl ELSE gw

\* app.py:65-70
StripesSpan(o, gl, gw) == IF BedsAlongLength(o) THEN gw ELSE gl
StripeLength(o, gl, gw) == IF BedsAlongLength(o) THEN gl ELSE gw

\* app.py:98
StartX(b) == b

\* mutant of StartY: placement starts at the buffer, ignoring the headhouse
StartYWithoutHeadhouse(hh, b) == b

\* app.py:99
StartY(hh, b) == hh + b

\* app.py:78-79
Headhouse(w, hh) ==
    IF hh > 0 THEN <<Rect("headhouse", 0, 0, w, hh, [label |-> "Headhouse"])>>
    ELSE <<>>

\* app.py:105-106: sum(r.w * r.h for r in rects if r.kind == kind)
RECURSIVE AreaOf(_, _)
AreaOf(rs, kind) ==
    IF rs = <<>> THEN 0
    ELSE (IF Head(rs).kind = kind THEN Head(rs).w * Head(rs).h ELSE 0)
         + AreaOf(Tail(rs), kind)

(* One run of the script body, app.py:60-117, on the (primed) parameters. *)
Rerun ==
    /\ grow_L' = GrowL(L', headhouse_depth', buffer')
    /\ grow_W' = GrowW(W', buffer')
    /\ stripes_span' = StripesSpan(orientation', grow_L', grow_W')
    /\ stripe_length' = StripeLength(orientation', grow_L', grow_W')
    /\ total' = stripes_span'
    /\ stripe' = bed_w'
    /\ gap' = aisle_w'
    /\ n_beds' = pack_repeating_stripes(total', stripe', gap')
    /\ LET placed == place_stripes(StartX(buffer'), StartY(headhouse_depth', buffer'), stripe_length',
                                   bed_w', aisle_w', n_beds',
                                   BedsAlongLength(orientation'))
       IN  /\ beds' = placed[1]
           /\ aisles' = placed[2]
           /\ rects' = Headhouse(W', headhouse_depth') \o placed[1] \o placed[2]
    /\ bed_area' = AreaOf(rects', "bed")
    /\ aisle_area' = AreaOf(rects', "aisle")
    /\ headhouse_area' = headhouse_depth' * W'
    /\ total_area' = W' * L'
    \* app.py:116 divides by total_area
    /\ error' = IF total_area' = 0 THEN "ZeroDivisionError" ELSE "none"
    /\ pc' = "done"

NothingComputed ==
    /\ grow_L = 0 /\ grow_W = 0 /\ stripes_span = 0 /\ stripe_length = 0
    /\ rects = <<>> /\ beds = <<>> /\ aisles = <<>>
    /\ bed_area = 0 /\ aisle_area = 0 /\ headhouse_area = 0 /\ total_area = 0
    /\ error = "none"

-----------------------------------------------------------------------------
(* The application: first run with the widget defaults, then one rerun per *)
(* widget change (app.py:33-54).                                           *)
LayoutInit ==
    /\ W = DefaultW /\ L = DefaultL /\ buffer = DefaultBuffer
    /\ headhouse_depth = DefaultHeadhouse
    /\ orientation = NorthSouth /\ mode = SoilBeds
    /\ bed_w = SoilBedDefault /\ aisle_w = SoilAisleDefault
    /\ grow_L = GrowL(L, headhouse_depth, buffer)
    /\ grow_W = GrowW(W, buffer)
    /\ stripes_span = StripesSpan(orientation, grow_L, grow_W)
    /\ stripe_length = StripeLength(orientation, grow_L, grow_W)
    /\ total = stripes_span /\ stripe = bed_w /\ gap = aisle_w
    /\ n_beds = pack_repeating_stripes(total, stripe, gap)
    /\ beds = place_stripes(StartX(buffer), StartY(headhouse_depth, buffer), stripe_length, bed_w,
                            aisle_w, n_beds, BedsAlongLength(orientation))[1]
    /\ aisles = place_stripes(StartX(buffer), StartY(headhouse_depth, buffer), stripe_length, bed_w,
                              aisle_w, n_beds, BedsAlongLength(orientation))[2]
    /\ rects = Headhouse(W, headhouse_depth) \o beds \o aisles
    /\ bed_area = AreaOf(rects, "bed")
    /\ aisle_area = AreaOf(rects, "aisle")
    /\ headhouse_area = headhouse_depth * W
    /\ total_area = W * L
    /\ error = IF total_area = 0 THEN "ZeroDivisionError" ELSE "none"
    /\ pc = "done"

SetW ==
    /\ \E v \in WValues \ {W} : W' = v
    /\ UNCHANGED <<L, buffer, headhouse_depth, orientation, mode, bed_w, aisle_w>>
    /\ Rerun

SetL ==
    /\ \E v \in LValues \ {L} : L' = v
    /\ UNCHANGED <<W, buffer, headhouse_depth, orientation, mode, bed_w, aisle_w>>
    /\ Rerun

SetBuffer ==
    /\ \E v \in BufferValues \ {buffer} : buffer' = v
    /\ UNCHANGED <<W, L, headhouse_depth, orientation, mode, bed_w, aisle_w>>
    /\ Rerun

SetHeadhouse ==
    /\ \E v \in HeadhouseValues \ {headhouse_depth} : headhouse_depth' = v
    /\ UNCHANGED <<W, L, buffer, orientation, mode, bed_w, aisle_w>>
    /\ Rerun

SetOrientation ==
    /\ \E v \in Orientations \ {orientation} : orientation' = v
    /\ UNCHANGED <<W, L, buffer, headhouse_depth, mode, bed_w, aisle_w>>
    /\ Rerun

\* app.py:48-54: each mode has its own pair of widgets, shown with their
\* defaults when the mode is entered.
SetMode ==
    /\ \E v \in Modes \ {mode} :
          /\ mode' = v
          /\ bed_w' = IF v = SoilBeds THEN SoilBedDefault ELSE BenchBedDefault
          /\ aisle_w' = IF v = SoilBeds THEN SoilAisleDefault ELSE BenchAisleDefault
    /\ UNCHANGED <<W, L, buffer, headhouse_depth, orientation>>
    /\ Rerun

SetBedW ==
    /\ \E v \in BedValues \ {bed_w} : bed_w' = v
    /\ UNCHANGED <<W, L, buffer, headhouse_depth, orientation, mode, aisle_w>>
    /\ Rerun

SetAisleW ==
    /\ \E v \in AisleValues \ {aisle_w} : aisle_w' = v
    /\ UNCHANGED <<W, L, buffer, headhouse_depth, orientation, mode, bed_w>>
    /\ Rerun

LayoutNext ==
    \/ SetW \/ SetL \/ SetBuffer \/ SetHeadhouse
    \/ SetOrientation \/ SetMode \/ SetBedW \/ SetAisleW

Spec == LayoutInit /\ [][LayoutNext]_vars

-----------------------------------------------------------------------------
(* The layout computation applied to parameters that did not pass the      *)
(* widget minimums (zero, negative or inconsistent values).                *)
BuilderInit ==
    /\ W \in (-LowAny)..MaxAnyW
    /\ L \in (-LowAny)..MaxAnyL
    /\ buffer \in (-LowAny)..MaxAnyBuffer
    /\ headhouse_depth \in (-LowAny)..MaxAnyHeadhouse
    /\ orientation \in Orientations
    /\ mode = SoilBeds
    /\ bed_w \in (-LowAny)..MaxAnyBed
    /\ aisle_w \in (-LowAny)..MaxAnyAisle
    /\ total = 0 /\ stripe = 0 /\ gap = 0 /\ n_beds = 0
    /\ NothingComputed
    /\ pc = "input"

computeLayout ==
    /\ pc = "input"
    /\ UNCHANGED inputs
    /\ Rerun

BuilderNext == computeLayout

BuilderSpec == BuilderInit /\ [][BuilderNext]_vars

-----------------------------------------------------------------------------
(* pack_repeating_stripes called on its own with arbitrary arguments.      *)
PackInit ==
    /\ total \in (-LowArg)..MaxTotal
    /\ stripe \in (-LowArg)..MaxStripe
    /\ gap \in (-LowArg)..MaxGap
    /\ n_beds = 0
    /\ W = 0 /\ L = 0 /\ buffer = 0 /\ headhouse_depth = 0
    /\ orientation = NorthSouth /\ mode = SoilBeds /\ bed_w = 0 /\ aisle_w = 0
    /\ NothingComputed
    /\ pc = "input"

PackCall ==
    /\ pc = "input"
    /\ n_beds' = pack_repeating_stripes(total, stripe, gap)
    /\ pc' = "done"
    /\ UNCHANGED <<total, stripe, gap, inputs, outputs>>

PackNext == PackCall

PackSpec == PackInit /\ [][PackNext]_vars

-----------------------------------------------------------------------------
(* Geometry helpers used by the properties below. *)
Min(a, b) == IF a <= b THEN a ELSE b

\* the open interiors of two rectangles intersect
Overlap(r, q) ==
    /\ Max(r.x, q.x) < Min(r.x + r.w, q.x + q.w)
    /\ Max(r.y, q.y) < Min(r.y + r.h, q.y + q.h)

Stripes == beds \o aisles

\* position and extent of a rectangle along the packed axis
AxisStart(r) == IF BedsAlongLength(orientation) THEN r.x ELSE r.y
AxisExtent(r) == IF BedsAlongLength(orientation) THEN r.w ELSE r.h
AxisEnd(r) == AxisStart(r) + AxisExtent(r)

RECURSIVE SumExtents(_)
SumExtents(rs) == IF rs = <<>> THEN 0 ELSE AxisExtent(Head(rs)) + SumExtents(Tail(rs))

KindCount(kind) == Cardinality({i \in 1..Len(rects) : rects[i].kind = kind})

Fits(n, t, s, g) == n * s + Max(0, n - 1) * g <= t
OneMoreDoesNotFit(n, t, s, g) == (n + 1) * s + n * g > t

-----------------------------------------------------------------------------
C2_MonotoneForAllInputs ==
    pc = "done" =>
        /\ \A t2 \in (-LowArg)..MaxTotal :
              total <= t2 => n_beds <= pack_repeating_stripes(t2, stripe, gap)
        /\ \A s2 \in (-LowArg)..MaxStripe :
              stripe <= s2 => n_beds >= pack_repeating_stripes(total, s2, gap)

\* C2 amended: the count is non-decreasing in total for all arguments, and
\* non-increasing in stripe over the positive stripe widths.
C2_MonotoneOverPositiveStripes ==
    pc = "done" =>
        /\ \A t2 \in (-LowArg)..MaxTotal :
              total <= t2 => n_beds <= pack_repeating_stripes(t2, stripe, gap)
        /\ \A s2 \in (-LowArg)..MaxStripe :
              (0 < stripe /\ stripe <= s2) =>
                  n_beds >= pack_repeating_stripes(total, s2, gap)

C2_Witness ==
    /\ pc = "done" /\ stripe > 0 /\ gap >= 0
    /\ \E t2 \in (-LowArg)..MaxTotal :
          total < t2 /\ n_beds < pack_repeating_stripes(t2, stripe, gap)
    /\ \E s2 \in (-LowArg)..MaxStripe :
          stripe < s2 /\ n_beds > pack_repeating_stripes(total, s2, gap)

\* C3: the count is 0 whenever stripe <= 0, total <= 0 or gap < 0, and it is
\* a non-negative integer for every input.
C3_ZeroOnInvalidInput ==
    pc = "done" =>
        /\ n_beds \in Nat
        /\ (stripe <= 0 \/ total <= 0 \/ gap < 0) => n_beds = 0

C3_Witness ==
    /\ pc = "done" /\ gap < 0 /\ stripe > 0 /\ total >= 2 * stripe
    /\ n_beds = 0

\* C4: the placement yields exactly count beds and max(0, count-1) aisles;
\* aisle i lies between bed i and bed i+1 and the last bed has none after it.
C4_AisleCount ==
    pc = "done" =>
        /\ n_beds >= 0
        /\ Len(beds) = n_beds
        /\ Len(aisles) = Max(0, n_beds - 1)
        /\ \A i \in 1..Len(beds) : beds[i].kind = "bed" /\ beds[i].meta.index = i
        /\ \A i \in 1..Len(aisles) :
              /\ aisles[i].kind = "aisle"
              /\ aisles[i].meta.between = <<i, i + 1>>
              /\ i < Len(beds)
        /\ KindCount("bed") = n_beds
        /\ KindCount("aisle") = Max(0, KindCount("bed") - 1)

C4_Witness ==
    /\ pc = "done" /\ orientation = EastWest
    /\ Len(beds) >= 3 /\ Len(aisles) = Len(beds) - 1

\* C5: the extents of all beds and aisles along the packed axis sum to at
\* most stripes_span (grow_W for North-South, grow_L for East-West), and the
\* far edge of the last bed is at most start + stripes_span.
C5_ExtentsWithinSpan ==
    pc = "done" =>
        /\ stripes_span = IF orientation = NorthSouth
                          THEN Max(0, W - 2 * buffer)
                          ELSE Max(0, L - headhouse_depth - 2 * buffer)
        /\ SumExtents(Stripes) <= stripes_span
        /\ beds # <<>> =>
              AxisEnd(beds[Len(beds)]) <=
                  (IF orientation = NorthSouth THEN buffer ELSE headhouse_depth + buffer)
                  + stripes_span

C5_Witness ==
    /\ pc = "done" /\ Len(beds) >= 2 /\ aisle_w > 0
    /\ SumExtents(Stripes) = stripes_span

\* C6: a headhouse rectangle exists iff headhouse_depth > 0; it is the single
\* rectangle (0, 0, W, headhouse_depth) and overlaps no bed or aisle, all of
\* which have y >= headhouse_depth + buffer; with depth 0 placement starts
\* at y = buffer.
C6_Headhouse ==
    pc = "done" =>
        /\ (KindCount("headhouse") > 0) <=> (headhouse_depth > 0)
        /\ headhouse_depth > 0 =>
              /\ KindCount("headhouse") = 1
              /\ \E i \in 1..Len(rects) :
                    /\ rects[i].kind = "headhouse"
                    /\ rects[i].x = 0 /\ rects[i].y = 0
                    /\ rects[i].w = W /\ rects[i].h = headhouse_depth
                    /\ \A j \in 1..Len(rects) :
                          rects[j].kind \in {"bed", "aisle"} => ~Overlap(rects[i], rects[j])
        /\ \A j \in 1..Len(rects) :
              rects[j].kind \in {"bed", "aisle"} => rects[j].y >= headhouse_depth + buffer
        /\ (headhouse_depth = 0 /\ beds # <<>>) => beds[1].y = buffer

C6_Witness ==
    /\ pc = "done" /\ headhouse_depth > 0 /\ orientation = EastWest
    /\ Len(beds) >= 2 /\ stripe_length > 0
    /\ KindCount("headhouse") = 1

\* C7: beds and aisles of one placement never overlap: along the packed axis
\* bed i, aisle i and bed i+1 occupy consecutive intervals, each starting
\* where the previous one ends, in strictly increasing order.
C7_NoOverlap ==
    pc = "done" =>
        /\ \A i, j \in 1..Len(Stripes) : i # j => ~Overlap(Stripes[i], Stripes[j])
        /\ \A i \in 1..Len(aisles) :
              /\ AxisStart(aisles[i]) = AxisEnd(beds[i])
              /\ AxisStart(beds[i + 1]) = AxisEnd(aisles[i])
              /\ AxisStart(beds[i]) < AxisStart(beds[i + 1])

C7_Witness ==
    /\ pc = "done" /\ orientation = NorthSouth
    /\ Len(beds) >= 3 /\ aisle_w > 0 /\ stripe_length > 0

\* C8: orientation selects span and stripe length: North-South packs grow_W
\* with beds of bed_w x grow_L, East-West packs grow_L with beds of
\* grow_W x bed_w; bed area is bedCount * bed_w * stripe_length; the default
\* parameters give 5 beds, 4 aisles, beds of 1.2 x 21.4 and 128.4 m2.
C8_OrientationSelectsSpan ==
    pc = "done" =>
        LET gl == Max(0, L - headhouse_depth - 2 * buffer)
            gw == Max(0, W - 2 * buffer)
        IN  /\ grow_L = gl /\ grow_W = gw
            /\ orientation = NorthSouth =>
                  /\ Len(beds) = pack_repeating_stripes(gw, bed_w, aisle_w)
                  /\ \A i \in 1..Len(beds) : beds[i].w = bed_w /\ beds[i].h = gl
                  /\ bed_area = Len(beds) * bed_w * gl
            /\ orientation = EastWest =>
                  /\ Len(beds) = pack_repeating_stripes(gl, bed_w, aisle_w)
                  /\ \A i \in 1..Len(beds) : beds[i].w = gw /\ beds[i].h = bed_w
                  /\ bed_area = Len(beds) * bed_w * gw
            /\ (/\ W = 90 /\ L = 240 /\ buffer = 3 /\ headhouse_depth = 20
                /\ orientation = NorthSouth /\ bed_w = 12 /\ aisle_w = 5) =>
                  /\ Len(beds) = 5 /\ Len(aisles) = 4
                  /\ \A i \in 1..Len(beds) : beds[i].w = 12 /\ beds[i].h = 214
                  /\ bed_area = 12840

C8_Witness ==
    /\ pc = "done" /\ orientation = EastWest
    /\ grow_L # grow_W /\ grow_W > 0
    /\ Len(beds) >= 2
    /\ Len(beds) # pack_repeating_stripes(grow_W, bed_w, aisle_w)

C10_InsideFrame ==
    pc = "done" =>
        \A i \in 1..Len(rects) :
            /\ 0 <= rects[i].x /\ 0 <= rects[i].y
            /\ rects[i].x + rects[i].w <= W
            /\ rects[i].y + rects[i].h <= L

=============================================================================
